---- MODULE Spec2Model ----
(***************************************************************************)
(* Model of the download session of lib/ss_light.go: NewLightClient and    *)
(* LightClient.Start with its two goroutines (the bootstrap retry and the  *)
(* progress updater), the session context, and the calls Start makes.      *)
(*                                                                         *)
(* Time is explicit, in milliseconds.  A blocked call or timer holds the   *)
(* time left until it completes; Tick lets time pass up to the next        *)
(* completion once nothing can run at the current instant.                 *)
(***************************************************************************)
EXTENDS Integers, Sequences, FiniteSets, TLC

(* ---------------- bounds of the model ---------------- *)

\* most leader peers a metadata answer carries
MaxLeaders == 5

\* largest declared size of the file, in bytes
MaxSize == 2

(* ---------------- program constants ---------------- *)

peerThreshold == 5

success == 200

internalError == 500

timeoutError == 504

serviceError == 503

\* to = time.Minute * 45 (the fallback of NewLightClient)
DefaultTimeout == 45 * 60000

\* time.After(time.Second * 30) of the retry goroutine
RetryInterval == 30 * 1000

\* time.Since(start) > time.Minute*15
RetryBudget == 15 * 60000

\* time.After(time.Second) of the zero-peer wait
PollInterval == 1000

\* time.After(time.Millisecond * 500) of the progress goroutine
ProgressInterval == 500

\* <-time.After(time.Second * 5)
GraceWait == 5 * 1000

MetaInfo == "MetaInfo"

DownloadSuccess == "DownloadSuccess"

(* ---------------- values ---------------- *)

None == "none"

\* how long getInfo may take (the look-up of the external address and the
\* round trip to the control plane): longer than one interval of the retry
\* goroutine
CallTimes == {RetryInterval + PollInterval}

\* how long lite.GetFile may take: no time, or long enough for the retry
\* goroutine to re-bootstrap twice meanwhile
GetFileTimes == {0, 2 * RetryInterval + PollInterval}

\* how long updateInfo may take
ReportTimes == {0}

\* how long lite.Bootstrap may take
BootstrapTimes == {0}

\* what dst.Stat() of the open destination file gives: it succeeds
StatResults == {TRUE}

\* how long one read of io.Copy may take
ReadTimes == {ProgressInterval}

\* a duration string is a number and a unit; the empty unit is what
\* time.ParseDuration rejects ("missing unit in duration")
UnitMs == [ms |-> 1, s |-> 1000, m |-> 60000, h |-> 3600000]

\* the timeout strings: one that ends between two reads of the copy, one that
\* ends between the first tick of the retry goroutine and the next poll of
\* the wait loop, and one without a unit
TimeoutArgs == {<<700, "ms">>, <<30700, "ms">>, <<15, "">>}

ParseDuration(str) ==
    IF str[2] \in DOMAIN UnitMs
    THEN [err |-> FALSE, d |-> str[1] * UnitMs[str[2]]]
    ELSE [err |-> TRUE, d |-> 0]

\* the default the warning of NewLightClient ("Using default 15m") and the
\* usage text of the command ("default is 15m") state
StatedDefault == 15 * 60000

\* the l.timeout NewLightClient stores for a timeout string
NewLightClient(str) ==
    LET to == ParseDuration(str)
    IN  IF to.err THEN DefaultTimeout ELSE to.d

NewOut(status, message, detail, data) ==
    [status |-> status, message |-> message, detail |-> detail, data |-> data]

\* showStep builds its record with success, whatever status it is given
showStep(status, message) == NewOut(success, message, "", "nil")

\* Start has not returned
NoOut == NewOut(0, "", "", "nil")

Min(S) == CHOOSE x \in S : \A y \in S : x <= y

(* ---------------- control-plane answers ---------------- *)

\* an answer of the control plane: whether the outer and the inner JSON
\* layer parse, the inner status, whether details is non-empty, and whether
\* the data field deserializes
Responses ==
    { [outer |-> TRUE,  inner |-> TRUE,  status |-> 200, details |-> FALSE, data |-> TRUE],
      [outer |-> TRUE,  inner |-> TRUE,  status |-> 200, details |-> FALSE, data |-> FALSE],
      [outer |-> TRUE,  inner |-> TRUE,  status |-> 404, details |-> TRUE,  data |-> TRUE],
      [outer |-> TRUE,  inner |-> TRUE,  status |-> 500, details |-> FALSE, data |-> TRUE],
      [outer |-> TRUE,  inner |-> FALSE, status |-> 0,   details |-> FALSE, data |-> FALSE],
      [outer |-> FALSE, inner |-> FALSE, status |-> 0,   details |-> FALSE, data |-> FALSE] }

\* what http.Post and ioutil.ReadAll give: a transport failure, a body that
\* cannot be read, or an answer
HttpOutcomes == {[http |-> "postErr"], [http |-> "readErr"]}
                \cup {[http |-> "ok", resp |-> r] : r \in Responses}

\* (a *apiResp) UnmarshalJSON: the error it returns and the Status it leaves
\* in the receiver (0 unless the inner status was 200)
UnmarshalJSON(r) ==
    IF ~r.outer THEN [err |-> "bad outer json", Status |-> 0]
    ELSE IF ~r.inner THEN [err |-> "bad inner json", Status |-> 0]
    ELSE IF r.status # 200
         THEN [err |-> IF r.details THEN "details" ELSE "Invalid status from server",
               Status |-> 0]
    ELSE [err |-> IF r.data THEN "nil" ELSE "bad data json", Status |-> r.status]

\* getInfo: the error it returns ("nil" for none)
getInfo(o) ==
    IF o.http = "postErr" THEN "post failed"
    ELSE IF o.http = "readErr" THEN "read failed"
    ELSE UnmarshalJSON(o.resp).err

\* updateInfo: the error it returns ("nil" for none)
updateInfo(o) ==
    IF o.http = "postErr" THEN "post failed"
    ELSE IF o.http = "readErr" THEN "read failed"
    ELSE LET u == UnmarshalJSON(o.resp)
         IN  IF u.err # "nil" /\ u.Status # 200 THEN u.err ELSE "nil"

\* how many leader peers a metadata answer carries: none, fewer than the
\* threshold, or the most
LeaderCounts == {0, 2, MaxLeaders}

\* the metadata a successful fetch can carry: the number of leader peers,
\* whether the swarm key decodes and whether the hash is a valid CID
Metadatas ==
    [leaders : LeaderCounts, pskOK : {TRUE}, hashOK : {TRUE}]
    \cup {[leaders |-> 2, pskOK |-> FALSE, hashOK |-> TRUE],
          [leaders |-> MaxLeaders, pskOK |-> TRUE, hashOK |-> FALSE]}

\* getInfo has not returned
NoMetadata == [leaders |-> 0, pskOK |-> FALSE, hashOK |-> FALSE]

(* ---------------- state ---------------- *)

VARIABLES
    timeout,      \* l.timeout
    onlyInfo,     \* the arguments of Start
    stat,         \* ({} until Start reads it, then {TRUE} or {FALSE})
    progUpd,      \* TRUE when progUpd is not nil
    pc,           \* where Start is
    mwait,        \* time left until the call or timer Start is blocked in completes
    sinceCall,    \* time since Start was called, until getInfo returns
    metadata,     \* what getInfo returned
    dstExists,    \* the destination file
    dstSize,
    ctx,          \* the session context: none, active or cancelled
    ctxLeft,      \* time left until its deadline
    count,        \* the connected-peer count shared with the retry goroutine
    countRead,    \* how the wait loop reads count: "memory" until it shows
    bootstrapping,\* who is inside lite.Bootstrap
    rpc,          \* where the retry goroutine is
    rwait,
    sinceStart,   \* time.Since(start), kept up to RetryBudget + 1
    ppc,          \* where the progress goroutine is
    pwait,
    samples,      \* the last two UpdateProgress calls, the latest last
    rscSize,      \* rsc.Size()
    rscOpen,
    sinceStartTime, \* time since startTime was taken, until the copy ends
    downloadTime,
    reportErr,    \* "none", then "nil" or, for an error (it is logged), "logged"
    result,       \* what Start returned
    shown,        \* the step notifications written by showStep
    trace         \* the calls of the main flow, in the order they happened

vars == <<timeout, onlyInfo, stat, progUpd, pc, mwait, sinceCall, metadata,
          dstExists, dstSize, ctx, ctxLeft, count, countRead, bootstrapping,
          rpc, rwait,
          sinceStart, ppc, pwait, samples, rscSize, rscOpen, sinceStartTime,
          downloadTime, reportErr, result, shown, trace>>

argVars   == <<timeout, onlyInfo, stat, progUpd>>
fileVars  == <<dstExists, dstSize>>
retryVars == <<rpc, rwait, sinceStart>>
progVars  == <<ppc, pwait, samples>>
xferVars  == <<rscSize, rscOpen, sinceStartTime, downloadTime, reportErr>>
countVars == <<count, bootstrapping>>

\* the state after NewLightClient: l.timeout is set, Start is not yet called
Init ==
    /\ timeout \in {NewLightClient(str) : str \in TimeoutArgs}
    /\ onlyInfo = FALSE
    /\ stat = {}
    /\ progUpd = FALSE
    /\ pc = "idle"
    /\ mwait = 0
    /\ sinceCall = 0
    /\ metadata = NoMetadata
    /\ dstExists = FALSE
    /\ dstSize = 0
    /\ ctx = None
    /\ ctxLeft = 0
    /\ count = 0
    /\ countRead = "memory"
    /\ bootstrapping = {}
    /\ rpc = None
    /\ rwait = 0
    /\ sinceStart = 0
    /\ ppc = None
    /\ pwait = 0
    /\ samples = <<>>
    /\ rscSize = 0
    /\ rscOpen = FALSE
    /\ sinceStartTime = 0
    /\ downloadTime = 0
    /\ reportErr = None
    /\ result = NoOut
    /\ shown = {}
    /\ trace = <<>>

\* ctx.Done() is closed
CtxDone == ctx = "cancelled" \/ (ctx = "active" /\ ctxLeft = 0)

\* the first occurrence of each call is recorded
Note(tr, e) ==
    IF \E i \in 1..Len(tr) : tr[i] = e THEN tr ELSE Append(tr, e)

\* a return of Start: the result, and the deferred cancel() and rsc.Close()
Return(out) ==
    /\ pc' = "done"
    /\ result' = out
    /\ ctx' = IF ctx = "active" THEN "cancelled" ELSE ctx
    /\ rscOpen' = FALSE

(* ---------------- Start: the main flow ---------------- *)

\* Start is called; getInfo posts its request.  The stat argument, which
\* Start reads once, just before it returns, is drawn where it is read.
Start ==
    /\ pc = "idle"
    /\ \E oi \in BOOLEAN, pu \in BOOLEAN, d \in CallTimes :
          /\ onlyInfo' = oi
          /\ progUpd' = pu
          /\ mwait' = d
    /\ pc' = "getInfo"
    /\ UNCHANGED <<timeout, stat, sinceCall, metadata, countRead, fileVars,
                   ctx, ctxLeft, countVars, retryVars, progVars, xferVars,
                   result, shown, trace>>

\* an onlyInfo test that is never taken
StopAfterInfoNever(oi) == FALSE

\* if onlyInfo { return ... }
StopAfterInfo(oi) == oi

\* getInfo returns; on success the "Got metadata" step, then the onlyInfo exit
GetInfoReturn ==
    /\ pc = "getInfo"
    /\ mwait = 0
    /\ trace' = Note(trace, "getInfo")
    /\ \E o \in HttpOutcomes :
          IF getInfo(o) # "nil"
          THEN /\ Return(NewOut(serviceError, "Failed getting metadata", getInfo(o), "nil"))
               /\ UNCHANGED <<metadata, shown>>
          ELSE \E m \in Metadatas :
                  /\ metadata' = m
                  /\ shown' = shown \cup {showStep(success, "Got metadata")}
                  /\ IF StopAfterInfo(onlyInfo)
                     THEN Return(NewOut(success, MetaInfo, "", "metadata"))
                     ELSE /\ pc' = "create"
                          /\ UNCHANGED <<result, ctx, rscOpen>>
    /\ UNCHANGED <<argVars, mwait, sinceCall, countRead, fileVars, ctxLeft,
                   countVars, retryVars, progVars, rscSize, sinceStartTime,
                   downloadTime, reportErr>>

\* os.Create(l.destination), then context.WithTimeout(l.timeout)
CreateDst ==
    /\ pc = "create"
    /\ \E ok \in BOOLEAN :
          IF ~ok
          THEN /\ Return(NewOut(internalError, "Failed creating destination file", "err", "nil"))
               /\ UNCHANGED <<fileVars, ctxLeft, sinceCall>>
          ELSE /\ dstExists' = TRUE
               /\ dstSize' = 0
               /\ ctx' = "active"
               /\ ctxLeft' = timeout
               /\ UNCHANGED sinceCall
               /\ pc' = "decodePSK"
               /\ UNCHANGED <<result, rscOpen>>
    /\ UNCHANGED <<argVars, mwait, metadata, countRead, countVars, retryVars,
                   progVars, rscSize, sinceStartTime, downloadTime, reportErr,
                   shown, trace>>

\* a Start that removes the destination file when the swarm key is bad
DecodePSKCleansUp ==
    /\ pc = "decodePSK"
    /\ IF ~metadata.pskOK
       THEN /\ Return(NewOut(internalError, "Failed decoding swarm key provided", "err", "nil"))
            /\ dstExists' = FALSE
            /\ UNCHANGED dstSize
       ELSE /\ pc' = "setupLibp2p"
            /\ UNCHANGED <<result, ctx, rscOpen, fileVars>>
    /\ UNCHANGED <<argVars, mwait, sinceCall, metadata, countRead, ctxLeft,
                   countVars, retryVars, progVars, rscSize, sinceStartTime,
                   downloadTime, reportErr, shown, trace>>

\* pnet.DecodeV1PSK
DecodePSK ==
    /\ pc = "decodePSK"
    /\ IF ~metadata.pskOK
       THEN Return(NewOut(internalError, "Failed decoding swarm key provided", "err", "nil"))
       ELSE /\ pc' = "setupLibp2p"
            /\ UNCHANGED <<result, ctx, rscOpen>>
    /\ UNCHANGED <<argVars, mwait, sinceCall, metadata, countRead, fileVars,
                   ctxLeft, countVars, retryVars, progVars, rscSize,
                   sinceStartTime, downloadTime, reportErr, shown, trace>>

\* ipfslite.SetupLibp2p
SetupLibp2p ==
    /\ pc = "setupLibp2p"
    /\ \E ok \in BOOLEAN :
          IF ~ok
          THEN Return(NewOut(internalError, "Failed setting up p2p peer", "err", "nil"))
          ELSE /\ pc' = "newLite"
               /\ UNCHANGED <<result, ctx, rscOpen>>
    /\ trace' = Note(trace, "SetupLibp2p")
    /\ UNCHANGED <<argVars, mwait, sinceCall, metadata, countRead, fileVars,
                   ctxLeft, countVars, retryVars, progVars, rscSize,
                   sinceStartTime, downloadTime, reportErr, shown>>

\* a Start that calls lite.Bootstrap in the background and goes on to the
\* download without its result
NewLiteAsync ==
    /\ pc = "newLite"
    /\ shown' = shown \cup {showStep(success, "Download agent created")}
    /\ bootstrapping' = bootstrapping \cup {"main"}
    /\ trace' = Note(trace, "Bootstrap.call")
    /\ pc' = "decodeCid"
    /\ UNCHANGED <<argVars, mwait, sinceCall, metadata, countRead, fileVars,
                   ctx, ctxLeft, count, retryVars, progVars, xferVars, result>>

\* a Start that launches the retry goroutine before its own lite.Bootstrap
NewLiteStartsRetry ==
    /\ pc = "newLite"
    /\ shown' = shown \cup {showStep(success, "Download agent created")}
    /\ bootstrapping' = bootstrapping \cup {"main"}
    /\ trace' = Note(trace, "Bootstrap.call")
    /\ \E d \in BootstrapTimes : mwait' = d
    /\ pc' = "bootstrap"
    /\ rpc' = "begin"
    /\ UNCHANGED <<argVars, sinceCall, metadata, countRead, fileVars, ctx,
                   ctxLeft, count, rwait, sinceStart, progVars, xferVars,
                   result>>

\* ipfslite.New returns; the "Download agent created" step; lite.Bootstrap
\* is called
NewLite ==
    /\ pc = "newLite"
    /\ \E ok \in BOOLEAN :
          IF ~ok
          THEN /\ Return(NewOut(internalError, "Failed setting up light client", "err", "nil"))
               /\ UNCHANGED <<shown, bootstrapping, mwait, trace>>
          ELSE /\ shown' = shown \cup {showStep(success, "Download agent created")}
               /\ bootstrapping' = bootstrapping \cup {"main"}
               /\ trace' = Note(trace, "Bootstrap.call")
               /\ \E d \in BootstrapTimes : mwait' = d
               /\ pc' = "bootstrap"
               /\ UNCHANGED <<result, ctx, rscOpen>>
    /\ UNCHANGED <<argVars, sinceCall, metadata, countRead, fileVars, ctxLeft,
                   count, retryVars, progVars, rscSize, sinceStartTime,
                   downloadTime, reportErr>>

\* lite.Bootstrap(leaders) with c of the n leaders already connected: the
\* number of leaders it newly connects (connected peers contribute zero)
Bootstrap(n, c) == IF c >= n THEN {0} ELSE 0..(n - c)

\* a threshold test that is off by one
NeedRetryOffByOne(c) == c <= peerThreshold

\* if count < peerThreshold { go func() ... }
NeedRetry(c) == c < peerThreshold

\* lite.Bootstrap returns into count; the "Bootstrapped" step; the retry
\* goroutine is started when count is below the threshold
BootstrapReturn ==
    /\ pc = "bootstrap"
    /\ mwait = 0 \/ CtxDone
    /\ \E k \in Bootstrap(metadata.leaders, 0) :
          /\ count' = k
          /\ rpc' = IF NeedRetry(k) THEN "begin" ELSE rpc
    /\ bootstrapping' = bootstrapping \ {"main"}
    /\ shown' = shown \cup {showStep(success, "Bootstrapped")}
    /\ trace' = Note(trace, "Bootstrap.ret")
    /\ mwait' = 0
    /\ pc' = "checkZero"
    /\ UNCHANGED <<argVars, sinceCall, metadata, countRead, fileVars, ctx,
                   ctxLeft, rwait, sinceStart, progVars, xferVars, result>>

\* The goroutine writes count and the wait loop of Start reads it with no
\* synchronisation between the two.  What the loop reads is settled by how
\* the loop was built: from memory, where it finds what the goroutine has
\* stored, or from a register that holds the zero Start found when it entered
\* the loop.  Which of the two it is shows, and is recorded in countRead, at
\* the first poll after the goroutine has stored a count above zero.
CountReads == {"memory", "register"}

ReadCount(c, how) == IF how = "register" THEN 0 ELSE c

\* a Start without the wait for a first peer
CheckZeroSkipped ==
    /\ pc = "checkZero"
    /\ pc' = "decodeCid"
    /\ UNCHANGED <<argVars, mwait, sinceCall, metadata, countRead, fileVars,
                   ctx, ctxLeft, countVars, retryVars, progVars, xferVars,
                   result, shown, trace>>

\* if count == 0: enter the wait loop, else go on to the download
CheckZero ==
    /\ pc = "checkZero"
    /\ IF count = 0
       THEN /\ pc' = "await"
            /\ mwait' = PollInterval
       ELSE /\ pc' = "decodeCid"
            /\ UNCHANGED mwait
    /\ UNCHANGED <<argVars, sinceCall, metadata, countRead, fileVars, ctx, ctxLeft,
                   countVars, retryVars, progVars, xferVars, result, shown,
                   trace>>

\* a wait loop whose case <-ctx.Done() logs and goes round again
AwaitCancelledLoops ==
    /\ pc = "await"
    /\ CtxDone
    /\ pc' = "await"
    /\ mwait' = PollInterval
    /\ UNCHANGED <<argVars, sinceCall, metadata, countRead, fileVars, ctx,
                   ctxLeft, countVars, retryVars, progVars, xferVars, result,
                   shown, trace>>

\* a wait loop whose case <-ctx.Done() returns the record showStep builds,
\* which carries success whatever status it is given
AwaitCancelledShown ==
    /\ pc = "await"
    /\ CtxDone
    /\ Return(showStep(internalError, "Stopped while waiting for peers"))
    /\ mwait' = 0
    /\ UNCHANGED <<argVars, sinceCall, metadata, countRead, fileVars, ctxLeft,
                   countVars, retryVars, progVars, rscSize, sinceStartTime,
                   downloadTime, reportErr, shown, trace>>

\* the wait loop, case <-ctx.Done()
AwaitCancelled ==
    /\ pc = "await"
    /\ CtxDone
    /\ Return(NewOut(internalError, "Stopped while waiting for peers",
                     "context cancelled", "nil"))
    /\ mwait' = 0
    /\ UNCHANGED <<argVars, sinceCall, metadata, countRead, fileVars, ctxLeft,
                   countVars, retryVars, progVars, rscSize, sinceStartTime,
                   downloadTime, reportErr, shown, trace>>

\* a wait loop that gives up at the first poll that finds no peer
AwaitPollGivesUp ==
    /\ pc = "await"
    /\ mwait = 0
    /\ IF count > 0
       THEN /\ pc' = "decodeCid"
            /\ UNCHANGED <<result, ctx, rscOpen>>
       ELSE Return(NewOut(internalError, "Stopped while waiting for peers",
                          "context cancelled", "nil"))
    /\ UNCHANGED <<argVars, mwait, sinceCall, metadata, countRead, fileVars,
                   ctxLeft, countVars, retryVars, progVars, rscSize,
                   sinceStartTime, downloadTime, reportErr, shown, trace>>

\* the wait loop, case <-time.After(time.Second), then if count > 0 { break }
AwaitPoll ==
    /\ pc = "await"
    /\ mwait = 0
    /\ \E how \in CountReads :
          /\ (countRead = "register") => (how = "register")
          /\ countRead' = IF count > 0 THEN how ELSE countRead
          /\ IF ReadCount(count, how) > 0
             THEN /\ pc' = "decodeCid"
                  /\ UNCHANGED mwait
             ELSE /\ pc' = "await"
                  /\ mwait' = PollInterval
    /\ UNCHANGED <<argVars, sinceCall, metadata, fileVars, ctx, ctxLeft,
                   countVars, retryVars, progVars, xferVars, result, shown,
                   trace>>

\* cid.Decode, the "Starting download" step, startTime, the call of GetFile
DecodeCid ==
    /\ pc = "decodeCid"
    /\ IF ~metadata.hashOK
       THEN /\ Return(NewOut(internalError, "Failed decoding filehash provided", "err", "nil"))
            /\ trace' = Note(trace, "cid.Decode")
            /\ UNCHANGED <<shown, mwait>>
       ELSE /\ shown' = shown \cup {showStep(success, "Starting download")}
            /\ trace' = Note(Note(trace, "cid.Decode"), "GetFile.call")
            /\ \E d \in GetFileTimes : mwait' = d
            /\ pc' = "getFile"
            /\ UNCHANGED <<result, ctx, rscOpen>>
    /\ sinceStartTime' = 0
    /\ UNCHANGED <<argVars, sinceCall, metadata, countRead, fileVars, ctxLeft,
                   countVars, retryVars, progVars, rscSize, downloadTime,
                   reportErr>>

\* lite.GetFile returns; the progress goroutine is started when progUpd is
\* not nil; io.Copy begins to read
GetFileReturn ==
    /\ pc = "getFile"
    /\ mwait = 0 \/ CtxDone
    /\ \E ok \in BOOLEAN :
          IF ~ok \/ mwait > 0
          THEN /\ Return(NewOut(500, "Failed getting file", "err", "nil"))
               /\ mwait' = 0
               /\ UNCHANGED <<rscSize, ppc>>
          ELSE /\ \E sz \in 0..MaxSize : rscSize' = sz
               /\ rscOpen' = TRUE
               /\ ppc' = IF progUpd THEN "sample" ELSE ppc
               /\ \E d \in ReadTimes : mwait' = d
               /\ pc' = "copy"
               /\ UNCHANGED <<result, ctx>>
    /\ UNCHANGED <<argVars, sinceCall, metadata, countRead, fileVars, ctxLeft,
                   countVars, retryVars, pwait, samples, sinceStartTime,
                   downloadTime, reportErr, shown, trace>>

\* an io.Copy whose failure removes the destination file
CopyChunkRollsBack ==
    /\ pc = "copy"
    /\ dstSize < rscSize
    /\ mwait = 0 \/ CtxDone
    /\ \E ok \in BOOLEAN :
          IF ~ok \/ mwait > 0
          THEN /\ Return(NewOut(internalError, "Failed writing to destination", "err", "nil"))
               /\ mwait' = 0
               /\ dstSize' = 0
               /\ dstExists' = FALSE
          ELSE /\ dstSize' = dstSize + 1
               /\ \E d \in ReadTimes : mwait' = d
               /\ UNCHANGED <<pc, result, ctx, rscOpen, dstExists>>
    /\ UNCHANGED <<argVars, sinceCall, metadata, countRead, ctxLeft, countVars,
                   retryVars, progVars, rscSize, sinceStartTime, downloadTime,
                   reportErr, shown, trace>>

\* io.Copy: one read from rsc and one write to dst, or an error of either
CopyChunk ==
    /\ pc = "copy"
    /\ dstSize < rscSize
    /\ mwait = 0 \/ CtxDone
    /\ \E ok \in BOOLEAN :
          IF ~ok \/ mwait > 0
          THEN /\ Return(NewOut(internalError, "Failed writing to destination", "err", "nil"))
               /\ mwait' = 0
               /\ UNCHANGED dstSize
          ELSE /\ dstSize' = dstSize + 1
               /\ \E d \in ReadTimes : mwait' = d
               /\ UNCHANGED <<pc, result, ctx, rscOpen>>
    /\ UNCHANGED <<argVars, sinceCall, metadata, countRead, dstExists, ctxLeft,
                   countVars, retryVars, progVars, rscSize, sinceStartTime,
                   downloadTime, reportErr, shown, trace>>

\* time.Now().Unix() - startTime after ms milliseconds: the whole seconds,
\* and one more when a second boundary was crossed in the remainder
UnixDiff(ms) ==
    IF ms % 1000 = 0 THEN {ms \div 1000} ELSE {ms \div 1000, ms \div 1000 + 1}

\* io.Copy returns nil at the end of the stream; downloadTime, the
\* "Finishing download" step, and the 5 second wait begins
CopyDone ==
    /\ pc = "copy"
    /\ dstSize = rscSize
    /\ \E dt \in UnixDiff(sinceStartTime) : downloadTime' = dt
    /\ sinceStartTime' = 0
    /\ shown' = shown \cup {showStep(success, "Finishing download")}
    /\ trace' = Note(trace, "Copy.ret")
    /\ mwait' = GraceWait
    /\ pc' = "grace"
    /\ UNCHANGED <<argVars, sinceCall, metadata, countRead, fileVars, ctx,
                   ctxLeft, countVars, retryVars, progVars, rscSize, rscOpen,
                   reportErr, result>>

\* a 5-second wait that the session context interrupts with a failure
GraceCancellable ==
    /\ pc = "grace"
    /\ mwait = 0 \/ CtxDone
    /\ IF CtxDone
       THEN /\ Return(NewOut(internalError, "Stopped while finishing",
                             "context cancelled", "nil"))
            /\ mwait' = 0
            /\ UNCHANGED trace
       ELSE /\ trace' = Note(trace, "updateInfo.call")
            /\ \E d \in ReportTimes : mwait' = d
            /\ pc' = "updateInfo"
            /\ UNCHANGED <<ctx, rscOpen, result>>
    /\ UNCHANGED <<argVars, sinceCall, metadata, countRead, fileVars, ctxLeft,
                   countVars, retryVars, progVars, rscSize, sinceStartTime,
                   downloadTime, reportErr, shown>>

\* the 5 seconds are over; updateInfo posts its request
Grace ==
    /\ pc = "grace"
    /\ mwait = 0
    /\ trace' = Note(trace, "updateInfo.call")
    /\ \E d \in ReportTimes : mwait' = d
    /\ pc' = "updateInfo"
    /\ UNCHANGED <<argVars, sinceCall, metadata, countRead, fileVars, ctx,
                   ctxLeft, countVars, retryVars, progVars, xferVars, result,
                   shown>>

\* what lite.Scp.GetMicroPayments() gives
LedgerResults == {"nil", "receipts"}

\* the StatOut of a stat session: the peers the host lists, the ledgers of
\* lite.Scp.GetMicroPayments() and the download time
StatOut(ledgers, dt) ==
    [ConnectedPeers |-> "Host.Network.Peers", Ledgers |-> ledgers,
     DownloadTime |-> dt]

\* a Start that returns the error of updateInfo
FinishPropagates(err, st, out) ==
    IF err # "nil"
    THEN NewOut(internalError, "Failed updating metadata", err, "nil")
    ELSE IF ~st THEN NewOut(200, DownloadSuccess, "", "nil")
    ELSE NewOut(success, "Stats", "", out)

\* a Start that fails when GetMicroPayments gave no ledgers
FinishLedgerError(err, st, out) ==
    IF ~st THEN NewOut(200, DownloadSuccess, "", "nil")
    ELSE IF out.Ledgers = "nil"
    THEN NewOut(internalError, "Failed getting ledgers", "err", "nil")
    ELSE NewOut(success, "Stats", "", out)

\* what Start returns once updateInfo has returned err
Finish(err, st, out) ==
    IF ~st THEN NewOut(200, DownloadSuccess, "", "nil")
    ELSE NewOut(success, "Stats", "", out)

\* updateInfo returns (its error is only logged); the "Updating cookie"
\* step; the result, with the peers and the ledgers when stat is set
UpdateInfoReturn ==
    /\ pc = "updateInfo"
    /\ mwait = 0
    /\ \E o \in HttpOutcomes, st \in BOOLEAN, ledgers \in LedgerResults :
          /\ st \/ ledgers = "nil"
          /\ reportErr' = IF updateInfo(o) = "nil" THEN "nil" ELSE "logged"
          /\ stat' = {st}
          /\ Return(Finish(updateInfo(o), st, StatOut(ledgers, downloadTime)))
    /\ shown' = shown \cup {showStep(success, "Updating cookie")}
    /\ UNCHANGED <<timeout, onlyInfo, progUpd, mwait, sinceCall, metadata,
                   countRead, fileVars, ctxLeft, countVars, retryVars,
                   progVars, rscSize, sinceStartTime, downloadTime, trace>>

(* ---------------- the retry goroutine ---------------- *)

\* for count < peerThreshold: the next select, or the end of the goroutine
RetryLoop(c) == IF c < peerThreshold THEN "select" ELSE "exited"

\* start := time.Now(), and the first test of the loop
RetryBegin ==
    /\ rpc = "begin"
    /\ sinceStart' = 0
    /\ rpc' = RetryLoop(count)
    /\ rwait' = IF RetryLoop(count) = "select" THEN RetryInterval ELSE 0
    /\ UNCHANGED <<argVars, pc, mwait, sinceCall, metadata, countRead,
                   fileVars, ctx, ctxLeft, countVars, progVars, xferVars,
                   result, shown, trace>>

\* case <-ctx.Done(): return
RetryCancelled ==
    /\ rpc = "select"
    /\ CtxDone
    /\ rpc' = "exited"
    /\ rwait' = 0
    /\ sinceStart' = 0
    /\ UNCHANGED <<argVars, pc, mwait, sinceCall, metadata, countRead,
                   fileVars, ctx, ctxLeft, countVars, progVars, xferVars,
                   result, shown, trace>>

\* a budget test that never gives up
BudgetNeverSpent(since) == FALSE

\* a budget test that gives up at the first tick
BudgetAlwaysSpent(since) == TRUE

\* time.Since(start) > time.Minute*15
BudgetSpent(since) == since > RetryBudget

\* case <-time.After(time.Second * 30): give up after 15 minutes, else
\* re-bootstrap when count is below the number of leaders
RetryTick ==
    /\ rpc = "select"
    /\ rwait = 0
    /\ IF BudgetSpent(sinceStart)
       THEN /\ shown' = shown \cup {showStep(timeoutError, "Download timed out")}
            /\ rpc' = "exited"
            /\ rwait' = 0
            /\ sinceStart' = 0
            /\ UNCHANGED <<bootstrapping, trace>>
       ELSE IF count < metadata.leaders
       THEN /\ bootstrapping' = bootstrapping \cup {"retry"}
            /\ trace' = Note(trace, "Bootstrap.retry")
            /\ \E d \in BootstrapTimes : rwait' = d
            /\ rpc' = "bootstrap"
            /\ UNCHANGED <<shown, sinceStart>>
       ELSE /\ rpc' = RetryLoop(count)
            /\ rwait' = IF RetryLoop(count) = "select" THEN RetryInterval ELSE 0
            /\ UNCHANGED <<shown, bootstrapping, trace, sinceStart>>
    /\ UNCHANGED <<argVars, pc, mwait, sinceCall, metadata, countRead,
                   fileVars, ctx, ctxLeft, count, progVars, xferVars, result>>

\* count = lite.Bootstrap(leaders), the sum forgotten
AddCountOverwrites(c, k) == k

\* count += lite.Bootstrap(leaders)
AddCount(c, k) == c + k

\* the re-bootstrap returns; the "Re-Bootstrapped" step; the loop test
RetryBootstrapReturn ==
    /\ rpc = "bootstrap"
    /\ rwait = 0 \/ CtxDone
    /\ \E k \in Bootstrap(metadata.leaders, count) :
          /\ count' = AddCount(count, k)
          /\ rpc' = RetryLoop(AddCount(count, k))
          /\ rwait' = IF RetryLoop(AddCount(count, k)) = "select"
                      THEN RetryInterval ELSE 0
          /\ sinceStart' = IF RetryLoop(AddCount(count, k)) = "select"
                           THEN sinceStart ELSE 0
    /\ bootstrapping' = bootstrapping \ {"retry"}
    /\ shown' = shown \cup {showStep(success, "Re-Bootstrapped")}
    /\ UNCHANGED <<argVars, pc, mwait, sinceCall, metadata, countRead,
                   fileVars, ctx, ctxLeft, progVars, xferVars, result, trace>>

(* ---------------- the progress goroutine ---------------- *)

\* int(prog) when prog is NaN (0/0): 0 on some builds, the least int on
\* others (the 32-bit least int stands for it)
NaNInts == {0, -2147483647 - 1}

\* int(prog) for prog := float64(size) / float64(total) * 100
IntProg(size, total) ==
    IF total = 0 THEN NaNInts ELSE {(size * 100) \div total}

Last(q) == q[Len(q)]

LastTwo(q) == IF Len(q) > 2 THEN Tail(q) ELSE q

\* prog == 100
ProgComplete(size, total) == total # 0 /\ size * 100 = 100 * total

\* dst.Stat(), UpdateProgress, and the end of the goroutine at 100
ProgressSample ==
    /\ ppc = "sample"
    /\ \E statOK \in StatResults :
          IF statOK
          THEN /\ \E p \in IntProg(dstSize, rscSize) :
                     \* a build converts NaN the same way every time
                     /\ (samples # <<>> /\ rscSize = 0) => p = Last(samples).percent
                     /\ samples' = LastTwo(Append(samples,
                            [percent |-> p, size |-> dstSize, total |-> rscSize]))
               /\ ppc' = IF ProgComplete(dstSize, rscSize) THEN "exited" ELSE "select"
               /\ pwait' = IF ProgComplete(dstSize, rscSize) THEN 0 ELSE ProgressInterval
          ELSE /\ ppc' = "select"
               /\ pwait' = ProgressInterval
               /\ UNCHANGED samples
    /\ UNCHANGED <<argVars, pc, mwait, sinceCall, metadata, countRead,
                   fileVars, ctx, ctxLeft, countVars, retryVars, xferVars,
                   result, shown, trace>>

\* the select of the progress goroutine: both cases go round the loop
ProgressSelect ==
    /\ ppc = "select"
    /\ pwait = 0 \/ CtxDone
    /\ ppc' = "sample"
    /\ pwait' = 0
    /\ UNCHANGED <<argVars, pc, mwait, sinceCall, metadata, countRead,
                   fileVars, ctx, ctxLeft, countVars, retryVars, samples,
                   xferVars, result, shown, trace>>

(* ---------------- time ---------------- *)

MainTimed == pc \in {"getInfo", "bootstrap", "await", "getFile", "grace",
                     "updateInfo"}
             \/ (pc = "copy" /\ dstSize < rscSize)

MainCtxAware == pc \in {"bootstrap", "await", "getFile"}
                \/ (pc = "copy" /\ dstSize < rscSize)

MainRunnable ==
    \/ pc \in {"idle", "create", "decodePSK", "setupLibp2p", "newLite",
              "checkZero", "decodeCid"}
    \/ (pc = "copy" /\ dstSize = rscSize)
    \/ (MainTimed /\ mwait = 0)
    \/ (MainCtxAware /\ CtxDone)

RetryTimed == rpc \in {"select", "bootstrap"}

RetryRunnable ==
    \/ rpc = "begin"
    \/ (RetryTimed /\ (rwait = 0 \/ CtxDone))

\* the progress goroutine has a step to take that is not its spinning on a
\* closed ctx.Done()
ProgressUrgent ==
    /\ ~CtxDone
    /\ \/ ppc = "sample"
       \/ (ppc = "select" /\ pwait = 0)

\* the times left of whatever is blocked
Pending ==
    (IF MainTimed THEN {mwait} ELSE {})
    \cup (IF RetryTimed THEN {rwait} ELSE {})
    \cup (IF ppc = "select" THEN {pwait} ELSE {})
    \cup (IF ctx = "active" THEN {ctxLeft} ELSE {})

Max(a, b) == IF a >= b THEN a ELSE b

\* d milliseconds pass
Pass(d) ==
    /\ mwait' = IF MainTimed THEN Max(mwait - d, 0) ELSE mwait
    /\ rwait' = IF RetryTimed THEN Max(rwait - d, 0) ELSE rwait
    /\ pwait' = IF ppc = "select" THEN Max(pwait - d, 0) ELSE pwait
    /\ ctxLeft' = IF ctx = "active" THEN Max(ctxLeft - d, 0) ELSE ctxLeft
    /\ sinceStart' = IF RetryTimed
                     THEN Min({sinceStart + d, RetryBudget + 1})
                     ELSE sinceStart
    /\ sinceCall' = IF pc = "getInfo" THEN sinceCall + d ELSE sinceCall
    /\ sinceStartTime' = IF pc \in {"getFile", "copy"}
                         THEN sinceStartTime + d ELSE sinceStartTime

\* time passes up to the next completion
Tick ==
    /\ ~MainRunnable
    /\ ~RetryRunnable
    /\ ~ProgressUrgent
    /\ {t \in Pending : t > 0} # {}
    /\ Pass(Min({t \in Pending : t > 0}))
    /\ UNCHANGED <<argVars, pc, metadata, countRead, fileVars, ctx, countVars,
                   rpc, ppc, samples, rscSize, rscOpen, downloadTime,
                   reportErr, result, shown, trace>>

(* ---------------- the specification ---------------- *)

Next ==
    \/ Start
    \/ GetInfoReturn
    \/ CreateDst
    \/ DecodePSK
    \/ SetupLibp2p
    \/ NewLite
    \/ BootstrapReturn
    \/ CheckZero
    \/ AwaitCancelled
    \/ AwaitPoll
    \/ DecodeCid
    \/ GetFileReturn
    \/ CopyChunk
    \/ CopyDone
    \/ Grace
    \/ UpdateInfoReturn
    \/ RetryBegin
    \/ RetryCancelled
    \/ RetryTick
    \/ RetryBootstrapReturn
    \/ ProgressSample
    \/ ProgressSelect
    \/ Tick

Spec == Init /\ [][Next]_vars

\* the steps of Start, of the retry goroutine and of the progress goroutine
MainNext ==
    \/ Start
    \/ GetInfoReturn
    \/ CreateDst
    \/ DecodePSK
    \/ SetupLibp2p
    \/ NewLite
    \/ BootstrapReturn
    \/ CheckZero
    \/ AwaitCancelled
    \/ AwaitPoll
    \/ DecodeCid
    \/ GetFileReturn
    \/ CopyChunk
    \/ CopyDone
    \/ Grace
    \/ UpdateInfoReturn

RetryNext ==
    \/ RetryBegin
    \/ RetryCancelled
    \/ RetryTick
    \/ RetryBootstrapReturn

ProgressNext == ProgressSample \/ ProgressSelect

\* the Go scheduler runs every goroutine that can run, and time passes
LiveSpec ==
    /\ Spec
    /\ WF_vars(MainNext)
    /\ WF_vars(RetryNext)
    /\ WF_vars(ProgressNext)
    /\ WF_vars(Tick)

(* ---------------- the claims ---------------- *)

\* the step notifications and calls that have happened
Shown(message) == showStep(success, message) \in shown

Pos(e) ==
    IF \E i \in 1..Len(trace) : trace[i] = e
    THEN CHOOSE i \in 1..Len(trace) : trace[i] = e
    ELSE 0

Happened(e) == Pos(e) > 0

\* Start returned the zero-peer failure
NoPeers ==
    /\ pc = "done"
    /\ result = NewOut(internalError, "Stopped while waiting for peers",
                       "context cancelled", "nil")

\* C1: a session whose synchronous bootstrap connected zero peers does not
\* stay in the zero-peer wait: it leaves the wait with a positive count, or
\* it returns the "Stopped while waiting for peers" failure with the session
\* deadline expired.
C1_WaitEnds ==
    (pc = "await") ~> ((pc = "decodeCid" /\ count > 0) \/ (NoPeers /\ ctxLeft = 0))

\* the wait ended at the deadline, with leaders known and none connected
C1_Witness ==
    /\ NoPeers
    /\ ctxLeft = 0
    /\ count = 0
    /\ metadata.leaders = MaxLeaders

\* C2: the deadline of the session counts from the call of Start, and the
\* metadata fetch, the first blocking step, observes it: Start is never still
\* blocked in the fetch once more than l.timeout has passed since the call.
C2_FetchWithinDeadline == (pc = "getInfo") => (sinceCall <= timeout)

\* a goroutine that was never started or has returned
Terminated(p) == p \in {None, "exited"}

\* C3: when Start has returned, the retry goroutine and the progress
\* goroutine have both terminated.
C3_NoTaskOutlivesStart == (pc = "done") => (Terminated(rpc) /\ Terminated(ppc))

\* C4: when updateInfo fails after a successful copy, Start still returns
\* what it returns without the failure: NewOut(200, DownloadSuccess) when
\* stat is false, NewOut(success, "Stats") with the StatOut when it is true.
C4_ReportFailureKeepsKind ==
    (pc = "done" /\ reportErr = "logged") =>
        \/ /\ stat = {FALSE}
           /\ result = NewOut(200, DownloadSuccess, "", "nil")
        \/ /\ stat = {TRUE}
           /\ \E l \in LedgerResults :
                 result = NewOut(success, "Stats", "", StatOut(l, downloadTime))

C4_Witness ==
    /\ pc = "done"
    /\ reportErr = "logged"
    /\ stat = {TRUE}
    /\ result.message = "Stats"

\* C5: with onlyInfo set, once the metadata fetch has succeeded Start has
\* returned the metadata with MetaInfo, and nothing else has happened: no
\* destination file, no context, no transport, no bootstrap, no goroutine.
C5_InfoOnlyStops ==
    (onlyInfo /\ Shown("Got metadata")) =>
        /\ pc = "done"
        /\ result = NewOut(success, MetaInfo, "", "metadata")
        /\ ~dstExists
        /\ ctx = None
        /\ trace = <<"getInfo">>
        /\ bootstrapping = {}
        /\ rpc = None
        /\ ppc = None

C5_Witness ==
    /\ onlyInfo
    /\ pc = "done"
    /\ result.message = MetaInfo
    /\ metadata.leaders = MaxLeaders

\* C6 as stated: whenever the metadata carries at least peerThreshold leaders,
\* the synchronous bootstrap has reported a count of at least peerThreshold
\* and the retry goroutine was not started.
C6_Original ==
    (metadata.leaders >= peerThreshold /\ Happened("Bootstrap.ret")) =>
        (count >= peerThreshold /\ rpc = None)

\* C6 amended: the retry goroutine is left unstarted exactly when the
\* synchronous bootstrap reports a count of at least peerThreshold, and it is
\* not started later.
C6_RetryOnlyBelowThreshold ==
    [][ /\ (pc = "bootstrap" /\ pc' = "checkZero") =>
              ((count' >= peerThreshold) <=> (rpc' = None))
        /\ (Happened("Bootstrap.ret") /\ rpc = None) => (rpc' = None) ]_vars

C6_Witness ==
    /\ pc = "checkZero"
    /\ metadata.leaders >= peerThreshold
    /\ count >= peerThreshold
    /\ rpc = None

\* C7: the percentages passed to UpdateProgress never decrease, and a sample
\* whose downloaded size equals the total size carries exactly 100.
C7_ProgressReaches100 ==
    /\ \A i \in 1..Len(samples) :
          (samples[i].size = samples[i].total) => (samples[i].percent = 100)
    /\ (Len(samples) = 2) => (samples[1].percent <= samples[2].percent)

Before(a, b) == Happened(b) => (Happened(a) /\ Pos(a) < Pos(b))

\* C8: getInfo has returned before lite.Bootstrap is first called, the
\* synchronous lite.Bootstrap has returned before cid.Decode and before
\* lite.GetFile is called, and io.Copy has returned before updateInfo is
\* called.
C8_Order ==
    /\ Before("getInfo", "Bootstrap.call")
    /\ Before("Bootstrap.call", "Bootstrap.retry")
    /\ Before("Bootstrap.ret", "cid.Decode")
    /\ Before("Bootstrap.ret", "GetFile.call")
    /\ Before("Copy.ret", "updateInfo.call")

C8_Witness ==
    /\ pc = "done"
    /\ Happened("Bootstrap.retry")
    /\ Happened("updateInfo.call")

\* Start ran to its end: the onlyInfo exit, or the return after updateInfo
Completed ==
    /\ pc = "done"
    /\ (onlyInfo /\ Shown("Got metadata")) \/ reportErr # None

Aborted == pc = "done" /\ ~Completed

\* C9: every return of Start that is an abort carries a status other than
\* 200 and a message, and every return that completes carries status 200.
C9_Status ==
    /\ Aborted => (result.status # 200 /\ result.message # "")
    /\ Completed => (result.status = 200)

C9_Witness ==
    /\ Aborted
    /\ result.message = "Failed writing to destination"
    /\ dstSize > 0

\* C10: no step lowers the connected-peer count.
C10_CountMonotone == [][count' >= count]_vars

\* the retry goroutine has re-bootstrapped and is about to add to a count
\* that is already positive
C10_Witness ==
    /\ rpc = "bootstrap"
    /\ count > 0
    /\ Shown("Re-Bootstrapped")

\* C11: the progress goroutine stops at a sample of 100, and it stops when
\* the context is done: waiting in its select with only ctx.Done() ready
\* (the 500 ms timer still running), it does not go on to another sample.
C11_ProgressStops ==
    [][ /\ (ppc = "select" /\ CtxDone /\ pwait > 0) => (ppc' # "sample")
        /\ (ppc = "sample" /\ ProgComplete(dstSize, rscSize)) => (ppc' # "select")
      ]_vars

\* C12: a Start whose io.Copy returned without error returns
\* NewOut(200, DownloadSuccess) when stat is false and NewOut(success, "Stats")
\* with the peers, the ledgers and the download time when stat is true, also
\* when GetMicroPayments gave no ledgers.
C12_CopiedEndsInSuccess ==
    (pc = "done" /\ Happened("Copy.ret")) =>
        \/ /\ stat = {FALSE}
           /\ result = NewOut(200, DownloadSuccess, "", "nil")
        \/ /\ stat = {TRUE}
           /\ \E l \in LedgerResults :
                 result = NewOut(success, "Stats", "", StatOut(l, downloadTime))

\* a stat session that got no ledgers
C12_Witness ==
    /\ pc = "done"
    /\ Happened("Copy.ret")
    /\ reportErr = "nil"
    /\ result = NewOut(success, "Stats", "", StatOut("nil", downloadTime))

\* lite.Bootstrap has returned for a metadata without leaders
EmptyLeaders == metadata.leaders = 0 /\ Happened("Bootstrap.ret")

\* C13: with an empty leader list Start returns nothing but the "Stopped
\* while waiting for peers" failure, it returns it no sooner than the deadline
\* of the session context expires, and it does return it.
C13_EmptyLeadersFailAtDeadline ==
    /\ [](EmptyLeaders => ((pc = "done") => (NoPeers /\ ctxLeft = 0)))
    /\ (EmptyLeaders ~> NoPeers)

C13_Witness ==
    /\ EmptyLeaders
    /\ NoPeers
    /\ ctxLeft = 0
    /\ rpc = "exited"

\* Start returned the failure of io.Copy
CopyFailed ==
    /\ pc = "done"
    /\ result = NewOut(internalError, "Failed writing to destination", "err", "nil")

\* C14: when io.Copy fails Start returns "Failed writing to destination"
\* without having called updateInfo, and the destination file stays as the
\* copy left it: it exists, with the bytes written so far, then and later.
C14_CopyFailureLeavesFile ==
    [][ CopyFailed' =>
          /\ dstExists'
          /\ dstSize' = dstSize
          /\ reportErr' = None
          /\ \A i \in 1..Len(trace') : trace'[i] # "updateInfo.call" ]_vars

\* the copy failed with one of two bytes written
C14_Witness ==
    /\ CopyFailed
    /\ dstExists
    /\ dstSize = 1
    /\ rscSize = 2

\* the timeouts of the strings that parse
ParsedTimeouts ==
    {ParseDuration(str).d : str \in {a \in TimeoutArgs : ~ParseDuration(a).err}}

\* C15: a client made from a timeout string that does not parse has the
\* stated default of 15 minutes as its timeout.
C15_DefaultIs15m == (timeout \notin ParsedTimeouts) => (timeout = StatedDefault)

\* the steps of the retry goroutine that call lite.Bootstrap and that take
\* its result
RetryCalls == rpc = "select" /\ rpc' = "bootstrap"

RetryTakesResult == rpc = "bootstrap" /\ rpc' # "bootstrap"

\* what C16 says of the retry goroutine, with the 15 minutes counted from
\* origin: it waits 30 seconds in each select; it calls lite.Bootstrap only
\* when that wait is over, no more than 15 minutes have passed and count is
\* below the number of leaders; it adds the result to count; and past the
\* 15 minutes, or once it has returned, it calls no more.
RetryRule(elapsed) ==
    /\ (rpc' = "select" /\ (rpc # "select" \/ rwait' > rwait)) => (rwait' = RetryInterval)
    /\ RetryCalls => /\ rwait = 0
                     /\ elapsed <= RetryBudget
                     /\ count < metadata.leaders
    /\ RetryTakesResult => (count' - count \in Bootstrap(metadata.leaders, count))
    /\ (rpc = "select" /\ sinceStart > RetryBudget) => (rpc' # "bootstrap")
    /\ (rpc = "exited") => (rpc' = "exited")

\* C16 as stated: the 15 minutes count from the start of the session (at
\* least sinceCall + sinceStart have passed since Start was called).
C16_Original == [][RetryRule(sinceCall + sinceStart)]_vars

\* C16 amended: the 15 minutes count from the start of the retry goroutine.
C16_RetryRule == [][RetryRule(sinceStart)]_vars

\* the retry goroutine calls lite.Bootstrap at its last tick within the budget
C16_Witness ==
    /\ rpc = "bootstrap"
    /\ sinceStart = RetryBudget
    /\ count < metadata.leaders

\* C17: a retry goroutine that was started returns, and it returns only with
\* count at the threshold, with more than 15 minutes passed since it started,
\* or with the session context done.
C17_RetryTerminates ==
    /\ (rpc \in {"begin", "select", "bootstrap"}) ~> (rpc = "exited")
    /\ [][ (rpc # "exited" /\ rpc' = "exited") =>
              \/ count' >= peerThreshold
              \/ sinceStart > RetryBudget
              \/ CtxDone ]_vars

\* it returned because its budget was spent, while Start was still waiting
C17_Witness ==
    /\ rpc = "exited"
    /\ showStep(timeoutError, "Download timed out") \in shown
    /\ pc = "await"
    /\ ~CtxDone

\* C18: once the copy has completed, Start waits the full 5 seconds, calls
\* updateInfo and returns the success Out or the stat Out, whether or not the
\* session deadline passes meanwhile.
C18_DeadlineAfterCopyIgnored ==
    [][ /\ (pc' = "grace" /\ pc # "grace") => (mwait' = GraceWait)
        /\ (pc = "grace") =>
              \/ pc' = "grace" /\ result' = result
              \/ pc' = "updateInfo" /\ mwait = 0
        /\ (pc = "updateInfo") =>
              \/ pc' = "updateInfo" /\ result' = result
              \/ pc' = "done" /\ result' = NewOut(200, DownloadSuccess, "", "nil")
              \/ /\ pc' = "done"
                 /\ \E l \in LedgerResults :
                       result' = NewOut(success, "Stats", "",
                                        StatOut(l, downloadTime)) ]_vars

\* the deadline of a 700 ms session passed during the 5 seconds, and Start
\* returned success
C18_Witness ==
    /\ pc = "done"
    /\ Happened("updateInfo.call")
    /\ timeout < GraceWait
    /\ ctxLeft = 0
    /\ result = NewOut(200, DownloadSuccess, "", "nil")

\* C19: cid.Decode and GetFile are reached only with count above zero.
C19_DownloadNeedsPeer ==
    /\ (pc \in {"decodeCid", "getFile", "copy"}) => (count > 0)
    /\ (Happened("cid.Decode") \/ Happened("GetFile.call")) => (count > 0)

\* the download was requested after the wait loop had seen a first peer
C19_Witness ==
    /\ pc = "getFile"
    /\ Shown("Re-Bootstrapped")
    /\ count > 0

\* C20: at most one goroutine is inside lite.Bootstrap; the retry goroutine
\* does not exist while Start is inside its own call; and count never
\* exceeds the number of leaders, so no connection is counted twice.
C20_BootstrapSerialized ==
    /\ Cardinality(bootstrapping) <= 1
    /\ ("main" \in bootstrapping) => (rpc = None)
    /\ ("retry" \in bootstrapping) => (rpc = "bootstrap")
    /\ count <= metadata.leaders

\* the retry goroutine is inside lite.Bootstrap while Start polls count
C20_Witness ==
    /\ bootstrapping = {"retry"}
    /\ pc = "await"
    /\ Happened("Bootstrap.ret")

\* C21: the step shown when the retry goroutine gives up after 15 minutes,
\* "Download timed out", has the status timeoutError (504) that the goroutine
\* hands to showStep, not success.
C21_TimedOutStepIs504 ==
    \A o \in shown : (o.message = "Download timed out") => (o.status = timeoutError)

\* C22: when Start returns "Stopped while waiting for peers", count is zero.
C22_NoPeersMeansZero == NoPeers => (count = 0)

\* C23: while Start is in the wait loop with count still zero, a non-empty
\* leader list and the context not done, the retry goroutine is alive.
C23_WaitHasRetry ==
    (pc = "await" /\ count = 0 /\ metadata.leaders > 0 /\ ~CtxDone) =>
        (rpc \in {"begin", "select", "bootstrap"})

\* C24: a poll of the wait loop that finds the context not done while count
\* is above zero leaves the wait loop: Start does not go round again.
C24_PollSeesCount ==
    [][ (pc = "await" /\ mwait = 0 /\ count > 0 /\ ~CtxDone /\ pc' = "await")
            => (mwait' = mwait) ]_vars

\* the failures of Start before the destination file exists, and the
\* failures after its creation and before the first byte is copied
FailuresBeforeCreate ==
    {"Failed getting metadata", "Failed creating destination file"}

FailuresBeforeCopy ==
    {"Failed decoding swarm key provided", "Failed setting up p2p peer",
     "Failed setting up light client", "Stopped while waiting for peers",
     "Failed decoding filehash provided", "Failed getting file"}

\* C25: the destination file is created before the transport is set up; a
\* Start that fails after the creation and before the copy leaves the file,
\* empty, in place; a Start that fails in getInfo or in os.Create leaves no
\* file.
C25_FailureLeavesEmptyFile ==
    /\ (pc \in {"setupLibp2p", "newLite", "bootstrap"}) => dstExists
    /\ (pc = "done" /\ result.message \in FailuresBeforeCreate) => ~dstExists
    /\ (pc = "done" /\ result.message \in FailuresBeforeCopy) =>
          (dstExists /\ dstSize = 0)

\* Start failed in the wait for peers and the empty file is there
C25_Witness ==
    /\ NoPeers
    /\ dstExists
    /\ dstSize = 0

====
